---- MODULE Spec2Model ----
(***************************************************************************)
(* Collections API of openedx_learning.apps.authoring.collections.         *)
(*                                                                         *)
(* The store holds Collection rows and CollectionPublishableEntity         *)
(* (membership) rows.  Every API function is an operator over a store      *)
(* record S and the wall-clock reading t, returning the outcome of the     *)
(* call: its status, the store it leaves behind and the value it returns.  *)
(* The sequential specification Spec runs one whole call per step; the     *)
(* specification SpecConc runs two set_collections calls at the            *)
(* granularity of their store steps.                                       *)
(***************************************************************************)
EXTENDS Integers, FiniteSets, Sequences, TLC

\* ---------------------------------------------------------------- bounds
MaxColl == 3        \* collection ids are 1..MaxColl
MaxTime == 1        \* the clock reads 0..MaxTime
MaxOps == 5         \* API calls in one behaviour of Spec
MaxCalls == 3       \* set_collections calls in one behaviour of SpecConc

Packages == {1, 2}
Users    == {0, 1}                  \* 0 stands for created_by=None
Entities == {1, 2}
Keys     == 1..MaxColl
Times    == 0..MaxTime
Procs    == {1, 2}

\* PublishableEntity.learning_package_id of the entities of the fixture
EntityPackage == [e \in Entities |-> e]

VARIABLES
    collections,    \* id -> Collection row [lp, key, enabled, modified]
    membership,     \* set of CollectionPublishableEntity rows
    nextId,         \* next primary key the store hands out
    now,            \* wall clock
    ret,            \* outcome of the last API call: [op, status, value]
    pc,             \* SpecConc: position of each caller inside set_collections
    loc,            \* SpecConc: each caller's arguments and local variables
    calls           \* number of API calls started so far

vars == <<collections, membership, nextId, now, ret, pc, loc, calls>>

\* The store as a value, so that calls can be composed.
Store == [collections |-> collections, membership |-> membership]

\* --------------------------------------------------------------- helpers
\* A caller's frame: the arguments (entity, qset, by), the local
\* affected_collection, and three history fields the code does not hold:
\* seen (the membership read), changed (what the replace step changed) and
\* interfered (another caller's replace step changed the entity's membership
\* between this caller's read and replace steps).
NoLoc == [entity |-> 0, qset |-> {}, by |-> 0, affected |-> {},
          seen |-> {}, changed |-> {}, interfered |-> FALSE]

NoRet == [op |-> "none", status |-> "none", value |-> {}]

Outcome(status, S, value) ==
    [status |-> status, collections |-> S.collections,
     membership |-> S.membership, value |-> value]

\* Collection.objects.get_by_key(learning_package_id, key): the ids matching
MatchingKey(S, lp, key) ==
    {c \in DOMAIN S.collections :
        S.collections[c].lp = lp /\ S.collections[c].key = key}

\* get_collection: the row, or ObjectDoesNotExist
get_collection(S, lp, key) ==
    IF MatchingKey(S, lp, key) = {}
    THEN Outcome("NotFound", S, {})
    ELSE Outcome("ok", S, {CHOOSE c \in MatchingKey(S, lp, key) : TRUE})

\* collection.save(): writes the row back; the modified field is stamped
Save(S, c, row, t) ==
    [S EXCEPT !.collections =
        [S.collections EXCEPT ![c] = [row EXCEPT !.modified = t]]]

\* a membership row inserted with through_defaults={"created_by_id": by}
NewMembership(c, e, by, t) ==
    [collection |-> c, entity |-> e, created |-> t, created_by |-> by]

\* the collections an entity is in
CollectionsOf(m, e) == {r.collection : r \in {x \in m : x.entity = e}}

\* the entities a collection holds
EntitiesOf(m, c) == {r.entity : r \in {x \in m : x.collection = c}}

\* ------------------------------------------------------------ operations
create_collection(S, t, id, lp, key, enabled) ==
    Outcome("ok",
        [S EXCEPT !.collections =
            [c \in DOMAIN S.collections \cup {id} |->
                IF c = id
                THEN [lp |-> lp, key |-> key, enabled |-> enabled, modified |-> t]
                ELSE S.collections[c]]],
        {id})

\* rows of a hard-deleted collection go with it
CascadeMemberships(m, c) == {r \in m : r.collection # c}

delete_collection(S, t, lp, key, hard_delete) ==
    LET got == get_collection(S, lp, key) IN
    IF got.status # "ok" THEN got
    ELSE LET c == CHOOSE x \in got.value : TRUE IN
         IF hard_delete
         THEN Outcome("ok",
                 [collections |-> [x \in DOMAIN S.collections \ {c} |-> S.collections[x]],
                  membership |-> CascadeMemberships(S.membership, c)],
                 {c})
         ELSE Outcome("ok",
                 Save(S, c, [S.collections[c] EXCEPT !.enabled = FALSE], t), {c})

restore_collection(S, t, lp, key) ==
    LET got == get_collection(S, lp, key) IN
    IF got.status # "ok" THEN got
    ELSE LET c == CHOOSE x \in got.value : TRUE IN
         Outcome("ok", Save(S, c, [S.collections[c] EXCEPT !.enabled = TRUE], t), {c})

\* slip: add() rewrites the rows of entities that are already members
M2MAdd_Overwrite(m, c, E, by, t) ==
    {r \in m : ~(r.collection = c /\ r.entity \in E)}
        \cup {NewMembership(c, e, by, t) : e \in E}

\* collection.entities.add(*objs, through_defaults=...): rows already there stay
M2MAdd(m, c, E, by, t) ==
    m \cup {NewMembership(c, e, by, t) : e \in E \ EntitiesOf(m, c)}

\* collection.entities.remove(*objs)
M2MRemove(m, c, E) == {r \in m : ~(r.collection = c /\ r.entity \in E)}

\* slip: the package check of add_to_collection finds nothing
invalid_entity_Skipped(E, lp) == {}

\* entities_qset.exclude(learning_package_id=learning_package_id)
invalid_entity(E, lp) == {e \in E : EntityPackage[e] # lp}

add_to_collection(S, t, lp, key, E, by) ==
    IF invalid_entity(E, lp) # {}
    THEN Outcome("ValidationError", S, {})
    ELSE LET got == get_collection(S, lp, key) IN
         IF got.status # "ok" THEN got
         ELSE LET c  == CHOOSE x \in got.value : TRUE
                  S1 == [S EXCEPT !.membership = M2MAdd(S.membership, c, E, by, t)]
              IN  Outcome("ok", Save(S1, c, [S1.collections[c] EXCEPT !.modified = t], t), {c})

remove_from_collection(S, t, lp, key, E) ==
    LET got == get_collection(S, lp, key) IN
    IF got.status # "ok" THEN got
    ELSE LET c  == CHOOSE x \in got.value : TRUE
             S1 == [S EXCEPT !.membership = M2MRemove(S.membership, c, E)]
         IN  Outcome("ok", Save(S1, c, [S1.collections[c] EXCEPT !.modified = t], t), {c})

\* qs.order_by('pk'): the rows of a set of ids as a sequence, smallest pk first
RECURSIVE OrderByPk(_)
OrderByPk(ids) ==
    IF ids = {} THEN <<>>
    ELSE LET lo == CHOOSE x \in ids : \A y \in ids : x <= y
         IN  <<lo>> \o OrderByPk(ids \ {lo})

\* slip: the enabled filter is dropped
get_collections_IgnoreEnabled(S, lp, enabled) ==
    OrderByPk({c \in DOMAIN S.collections : S.collections[c].lp = lp})

\* get_collections(learning_package_id, enabled): enabled is "True" (the
\* default), "False" or "None"
get_collections(S, lp, enabled) ==
    LET qs  == {c \in DOMAIN S.collections : S.collections[c].lp = lp}
        qs2 == IF enabled = "None" THEN qs
               ELSE {c \in qs : S.collections[c].enabled = (enabled = "True")}
    IN  OrderByPk(qs2)

\* get_entity_collections: the enabled collections holding the entity
get_entity_collections(S, e) ==
    OrderByPk({c \in CollectionsOf(S.membership, e) : S.collections[c].enabled})

\* slip: set() only adds the missing rows and removes none
M2MSet_AddOnly(m, e, D, by, t) ==
    m \cup {NewMembership(c, e, by, t) : c \in D \ CollectionsOf(m, e)}

\* slip: set(clear=True), every row of the entity is deleted and written anew
M2MSet_Clear(m, e, D, by, t) ==
    {r \in m : r.entity # e} \cup {NewMembership(c, e, by, t) : c \in D}

\* publishable_entity.collections.set(objs, through_defaults=...): reads the
\* rows the entity has now, deletes those not in objs, inserts the missing ones
M2MSet(m, e, D, by, t) ==
    LET old_ids  == CollectionsOf(m, e)
        new_objs == {c \in D : c \notin old_ids}
        gone     == {c \in old_ids : c \notin D}
    IN  {r \in m : ~(r.entity = e /\ r.collection \in gone)}
            \cup {NewMembership(c, e, by, t) : c \in new_objs}

\* slip: the package check of set_collections finds nothing
OutsidePackage_Skipped(S, e, D) == {}

\* the collections of collection_qset outside the entity's learning package
OutsidePackage(S, e, D) ==
    {c \in D : S.collections[c].lp # EntityPackage[e]}

\* slip: every current collection is reported as removed
removed_collections_All(S, e, D) == CollectionsOf(S.membership, e)

\* removed_collections: current relations whose collection is not in the qset
removed_collections(S, e, D) ==
    LET current_relations == {r \in S.membership : r.entity = e}
    IN  {r.collection : r \in {x \in current_relations : x.collection \notin D}}

\* slip: every collection of the qset is reported as new
new_collections_All(S, e, D) == D

\* new_collections: collections of the qset the entity has no relation to
new_collections(S, e, D) ==
    LET current_relations == {r \in S.membership : r.entity = e}
    IN  {c \in D : c \notin {r.collection : r \in current_relations}}

\* slip: the update is not filtered by id
BulkUpdateModified_All(cols, ids, t) ==
    [c \in DOMAIN cols |-> [cols[c] EXCEPT !.modified = t]]

\* slip: the update is dropped
BulkUpdateModified_None(cols, ids, t) == cols

\* Collection.objects.filter(id__in=ids).update(modified=t)
BulkUpdateModified(cols, ids, t) ==
    [c \in DOMAIN cols |->
        IF c \in ids THEN [cols[c] EXCEPT !.modified = t] ELSE cols[c]]

set_collections(S, t, e, D, by) ==
    IF OutsidePackage(S, e, D) # {}
    THEN Outcome("ValidationError", S, {})
    ELSE LET affected_collection ==
                 removed_collections(S, e, D) \cup new_collections(S, e, D)
         IN  Outcome("ok",
                 [collections |-> BulkUpdateModified(S.collections, affected_collection, t),
                  membership  |-> M2MSet(S.membership, e, D, by, t)],
                 affected_collection)

\* ------------------------------------------------- sequential specification
Init ==
    /\ collections = <<>>
    /\ membership = {}
    /\ nextId = 1
    /\ now = 0
    /\ ret = NoRet
    /\ pc = [p \in Procs |-> "idle"]
    /\ loc = [p \in Procs |-> NoLoc]
    /\ calls = 0

\* one whole API call: the store and the returned value change together
Commit(op, r) ==
    /\ calls < MaxOps
    /\ calls' = calls + 1
    /\ collections' = r.collections
    /\ membership' = r.membership
    /\ ret' = [op |-> op, status |-> r.status, value |-> r.value]

CreateCollection ==
    /\ nextId <= MaxColl
    /\ \E lp \in Packages, enabled \in BOOLEAN :
          Commit("create_collection",
                 create_collection(Store, now, nextId, lp, nextId, enabled))
    /\ nextId' = nextId + 1
    /\ UNCHANGED <<now, pc, loc>>

DeleteCollection ==
    /\ \E lp \in Packages, key \in Keys, hard_delete \in BOOLEAN :
          Commit("delete_collection", delete_collection(Store, now, lp, key, hard_delete))
    /\ UNCHANGED <<nextId, now, pc, loc>>

RestoreCollection ==
    /\ \E lp \in Packages, key \in Keys :
          Commit("restore_collection", restore_collection(Store, now, lp, key))
    /\ UNCHANGED <<nextId, now, pc, loc>>

AddToCollection ==
    /\ \E lp \in Packages, key \in Keys, E \in SUBSET Entities, by \in Users :
          Commit("add_to_collection", add_to_collection(Store, now, lp, key, E, by))
    /\ UNCHANGED <<nextId, now, pc, loc>>

RemoveFromCollection ==
    /\ \E lp \in Packages, key \in Keys, E \in SUBSET Entities :
          Commit("remove_from_collection", remove_from_collection(Store, now, lp, key, E))
    /\ UNCHANGED <<nextId, now, pc, loc>>

SetCollections ==
    /\ \E e \in Entities, D \in SUBSET DOMAIN collections, by \in Users :
          Commit("set_collections", set_collections(Store, now, e, D, by))
    /\ UNCHANGED <<nextId, now, pc, loc>>

\* datetime.now(tz=timezone.utc) never goes back
Tick ==
    /\ now < MaxTime
    /\ now' = now + 1
    /\ UNCHANGED <<collections, membership, nextId, ret, pc, loc, calls>>

Next ==
    \/ CreateCollection
    \/ DeleteCollection
    \/ RestoreCollection
    \/ AddToCollection
    \/ RemoveFromCollection
    \/ SetCollections
    \/ Tick

Spec == Init /\ [][Next]_vars

TypeOK ==
    /\ DOMAIN collections \subseteq 1..MaxColl
    /\ now \in Times
    /\ calls \in Nat
    /\ \A c \in DOMAIN collections : collections[c].modified <= now
    /\ \A r \in membership : r.created <= now

\* ------------------------------------------------- concurrent specification
\* Two callers run set_collections against a store that already holds two
\* collections of learning package 1; each call takes three store steps.
InitConc ==
    /\ collections = [c \in {1, 2} |->
                        [lp |-> 1, key |-> c, enabled |-> TRUE, modified |-> 0]]
    /\ membership = {}
    /\ nextId = 3
    /\ now = 0
    /\ ret = NoRet
    /\ pc = [p \in Procs |-> "idle"]
    /\ loc = [p \in Procs |-> NoLoc]
    /\ calls = 0

\* the collections whose relation to entity e differs between m1 and m2
ChangedFor(m1, m2, e) ==
    (CollectionsOf(m1, e) \ CollectionsOf(m2, e))
        \cup (CollectionsOf(m2, e) \ CollectionsOf(m1, e))

\* the package check and the two queries over the entity's current relations
ReadStep(p) ==
    /\ pc[p] \in {"idle", "returned"}
    /\ calls < MaxCalls
    /\ \E e \in Entities, D \in SUBSET DOMAIN collections, by \in Users :
          IF OutsidePackage(Store, e, D) # {}
          THEN /\ ret' = [op |-> "set_collections", status |-> "ValidationError",
                          value |-> {}]
               /\ pc' = [pc EXCEPT ![p] = "idle"]
               /\ loc' = [loc EXCEPT ![p] = NoLoc]
          ELSE /\ loc' = [loc EXCEPT ![p] =
                    [entity |-> e, qset |-> D, by |-> by,
                     affected |-> removed_collections(Store, e, D)
                                      \cup new_collections(Store, e, D),
                     seen |-> CollectionsOf(membership, e),
                     changed |-> {}, interfered |-> FALSE]]
               /\ pc' = [pc EXCEPT ![p] = "read"]
               /\ ret' = ret
    /\ calls' = calls + 1
    /\ UNCHANGED <<collections, membership, nextId, now>>

\* publishable_entity.collections.set(...) against the store as it is now
ReplaceStep(p) ==
    /\ pc[p] = "read"
    /\ LET e  == loc[p].entity
           m2 == M2MSet(membership, e, loc[p].qset, loc[p].by, now)
       IN  /\ membership' = m2
           /\ loc' = [q \in Procs |->
                IF q = p
                THEN [loc[q] EXCEPT !.changed = ChangedFor(membership, m2, e)]
                ELSE IF pc[q] = "read" /\ loc[q].entity = e
                            /\ ChangedFor(membership, m2, e) # {}
                     THEN [loc[q] EXCEPT !.interfered = TRUE]
                     ELSE loc[q]]
    /\ pc' = [pc EXCEPT ![p] = "replaced"]
    /\ UNCHANGED <<collections, nextId, now, ret, calls>>

\* the bulk update of modified, and the return of affected_collection
StampStep(p) ==
    /\ pc[p] = "replaced"
    /\ collections' = BulkUpdateModified(collections, loc[p].affected, now)
    /\ ret' = [op |-> "set_collections", status |-> "ok", value |-> loc[p].affected]
    /\ pc' = [pc EXCEPT ![p] = "returned"]
    /\ UNCHANGED <<membership, nextId, now, loc, calls>>

TickConc ==
    /\ now < MaxTime
    /\ now' = now + 1
    /\ UNCHANGED <<collections, membership, nextId, ret, pc, loc, calls>>

NextConc ==
    \/ \E p \in Procs : ReadStep(p)
    \/ \E p \in Procs : ReplaceStep(p)
    \/ \E p \in Procs : StampStep(p)
    \/ TickConc

SpecConc == InitConc /\ [][NextConc]_vars

\* ------------------------------------------------------------------ claims
SymDiff(A, B) == (A \ B) \cup (B \ A)

Modified(cols) == [c \in DOMAIN cols |-> cols[c].modified]

\* the membership rows of entity e whose collection is in Cs
RowsOf(m, e, Cs) == {r \in m : r.entity = e /\ r.collection \in Cs}

\* C1: set_collections(entity, D) with a collection of D in another learning
\* package than the entity's fails with ValidationError and leaves every
\* membership row and every collection's modified timestamp as they were.
C1_CrossPackageRejected ==
    \A e \in Entities, D \in SUBSET DOMAIN collections, by \in Users :
        (\E c \in D : collections[c].lp # EntityPackage[e]) =>
            LET r == set_collections(Store, now, e, D, by) IN
            /\ r.status = "ValidationError"
            /\ r.membership = membership
            /\ r.collections = collections

C1_Witness ==
    /\ ret.op = "set_collections"
    /\ ret.status = "ValidationError"
    /\ membership # {}

\* C2: every membership row links a collection and an entity of the same
\* learning package, in every state the API calls can reach.
C2_SamePackage ==
    \A r \in membership :
        collections[r.collection].lp = EntityPackage[r.entity]

C2_Witness ==
    /\ \E r1, r2 \in membership :
          EntityPackage[r1.entity] # EntityPackage[r2.entity]
    /\ ret.status = "ValidationError"

\* C3: after a successful set_collections(entity, D) the collections holding
\* the entity are exactly D.
C3_MembershipIsDesired ==
    \A e \in Entities, D \in SUBSET DOMAIN collections, by \in Users :
        LET r == set_collections(Store, now, e, D, by) IN
        r.status = "ok" => CollectionsOf(r.membership, e) = D

C3_Witness ==
    /\ ret.op = "set_collections"
    /\ ret.status = "ok"
    /\ \E e \in Entities :
          /\ Cardinality(CollectionsOf(membership, e)) = 2
          /\ Cardinality(ret.value) = 2
          /\ ret.value # CollectionsOf(membership, e)

\* C4: a successful set_collections(entity, D) returns exactly
\* (current \ D) \cup (D \ current), current being the entity's membership
\* just before the call.
C4_AffectedIsDelta ==
    \A e \in Entities, D \in SUBSET DOMAIN collections, by \in Users :
        LET r == set_collections(Store, now, e, D, by) IN
        r.status = "ok" => r.value = SymDiff(CollectionsOf(membership, e), D)

\* entity left one collection, stayed in one and joined one
C4_Witness ==
    /\ ret.op = "set_collections"
    /\ ret.status = "ok"
    /\ \E e \in Entities :
          /\ Cardinality(CollectionsOf(membership, e)) = 2
          /\ Cardinality(ret.value) = 2
          /\ Cardinality(ret.value \cap CollectionsOf(membership, e)) = 1

\* C5: set_collections leaves the membership rows of the collections in both
\* current and D as they were (created and created_by kept), and only the
\* rows it inserts carry the call's created_by.
C5_KeptRowsUntouched ==
    \A e \in Entities, D \in SUBSET DOMAIN collections, by \in Users :
        LET r    == set_collections(Store, now, e, D, by)
            kept == CollectionsOf(membership, e) \cap D
        IN  r.status = "ok" =>
            /\ RowsOf(r.membership, e, kept) = RowsOf(membership, e, kept)
            /\ \A x \in r.membership \ membership :
                  x.created_by = by /\ x.entity = e

\* a row older than the call and by another user sits beside a row of the call
C5_Witness ==
    /\ ret.op = "set_collections"
    /\ ret.status = "ok"
    /\ \E r1, r2 \in membership :
          /\ r1.entity = r2.entity
          /\ r1.collection \notin ret.value
          /\ r2.collection \in ret.value
          /\ r1.created < r2.created
          /\ r1.created_by # r2.created_by

After(r) == [collections |-> r.collections, membership |-> r.membership]

C8_IdempotentButTouches ==
    \A lp \in Packages, key \in Keys, E \in SUBSET Entities :
        /\ \A by1 \in Users :
              LET a1 == add_to_collection(Store, now, lp, key, E, by1) IN
              a1.status = "ok" =>
                  /\ \A c \in a1.value :
                        /\ EntitiesOf(a1.membership, c) = EntitiesOf(membership, c) \cup E
                        /\ a1.collections[c].modified = now
                  /\ \A by2 \in Users, t2 \in now..MaxTime :
                        LET a2 == add_to_collection(After(a1), t2, lp, key, E, by2) IN
                        /\ a2.status = "ok" /\ a2.value = a1.value
                        /\ a2.membership = a1.membership
                        /\ \A c \in a1.value : a2.collections[c].modified = t2
        /\ LET d1 == remove_from_collection(Store, now, lp, key, E) IN
           d1.status = "ok" =>
               /\ \A c \in d1.value :
                     /\ EntitiesOf(d1.membership, c) = EntitiesOf(membership, c) \ E
                     /\ d1.collections[c].modified = now
               /\ \A t2 \in now..MaxTime :
                     LET d2 == remove_from_collection(After(d1), t2, lp, key, E) IN
                     /\ d2.status = "ok" /\ d2.value = d1.value
                     /\ d2.membership = d1.membership
                     /\ \A c \in d1.value : d2.collections[c].modified = t2

\* an add that found its entity already there: the row is older than the stamp
C8_Witness ==
    /\ ret.op = "add_to_collection"
    /\ ret.status = "ok"
    /\ \E c \in ret.value :
          /\ collections[c].modified = now
          /\ \E r \in membership : r.collection = c /\ r.created < now

Range(f) == {f[i] : i \in DOMAIN f}

C10_AffectedIsWhatChanged ==
    [][\A p \in Procs :
          (pc[p] = "replaced" /\ pc'[p] = "returned") =>
              /\ ret'.value = loc[p].changed
              /\ \A c \in loc[p].changed : collections'[c].modified = now]_vars

\* C10 amended: the set a call returns is the difference between D and the
\* membership the call read at its read step, each collection of it is
\* stamped by the call, and it is the set the replace step changed whenever
\* no other call's replace step changed that entity's membership in between.
C10_AffectedIsWhatWasRead ==
    [][\A p \in Procs :
          (pc[p] = "replaced" /\ pc'[p] = "returned") =>
              /\ ret'.value = SymDiff(loc[p].seen, loc[p].qset)
              /\ \A c \in ret'.value : collections'[c].modified = now
              /\ ~loc[p].interfered => ret'.value = loc[p].changed]_vars

\* a call returned after another call's replace step ran between its read
\* and its replace, and what it returned is not what it changed; the other
\* call, which nobody interfered with, returned what it changed
C10_Witness ==
    \E p, q \in Procs :
        /\ pc[p] = "returned" /\ pc[q] = "returned"
        /\ loc[p].interfered
        /\ loc[p].affected # loc[p].changed
        /\ ~loc[q].interfered
        /\ loc[q].changed # {}
        /\ loc[q].affected = loc[q].changed

====
